---- MODULE Spec2Model ----
(***************************************************************************)
(* Session controller of whisper_gui.py: WhisperRecorder (capture stream,  *)
(* BUFFER, is_recording, audio_level), WhisperGUI (toggle_recording, the   *)
(* update_visualizer timer chain) and the two daemon worker threads        *)
(* _record and _stop_and_transcribe.                                       *)
(*                                                                         *)
(* The foreground (Tk main loop) runs one handler at a time; the worker    *)
(* threads and the PortAudio callback interleave with it at every access   *)
(* to shared state, so each worker has a program counter whose values are  *)
(* the shared-state accesses of its code.  Every toggle spawns exactly one *)
(* worker, so workers are numbered by the toggle that spawned them, and a  *)
(* _record worker w owns the InputStream object numbered w.                *)
(*                                                                         *)
(* A step that only raises is taken together with the except branch that   *)
(* catches it, since raising touches no shared state.  The except branch   *)
(* of _stop_and_transcribe (lines 460-466) has no action: stop_recording,  *)
(* transcribe and copy_to_clipboard each catch every Exception themselves. *)
(*                                                                         *)
(* Spec is whisper_gui.py under any user and any scheduling, FairSpec the  *)
(* same with the threads and the main loop scheduled fairly.  CaptureSpec  *)
(* is whisper_gui.py used one session at a time, with longer captures and  *)
(* faulty blocks; LevelSpec is the callback alone on a wide set of blocks. *)
(* whisper_cli.py holds an earlier variant of the same two classes without *)
(* the visualizer; CliSpec is that program used one session at a time.     *)
(***************************************************************************)
EXTENDS Integers, Sequences, FiniteSets, TLC

\* ---------------------------------------------------------------- bounds
MaxToggles == 3
MaxBlocks == 1
BlockLen == 2
MaxSample == 3
MaxCapture == 3
MaxLevelCalls == 2

Workers == 1..MaxToggles
Samples == {0, MaxSample}
\* the blocks the device delivers: BlockLen samples of one amplitude
Blocks == {[i \in 1..BlockLen |-> a] : a \in Samples}
Texts == {"", "hello"}

\* ------------------------------------------------------- program strings
READY == "Ready to record"
RECORDING == "Recording..."
GENERATING == "Generating text..."
NO_AUDIO == "No audio recorded"
START_ERROR == "Error starting recording"
None == <<"None">>

VARIABLES
    is_recording,   \* WhisperRecorder.is_recording
    BUFFER,         \* WhisperRecorder.BUFFER: sequence of blocks
    stream,         \* WhisperRecorder.stream: 0 (None) or a stream number
    streams,        \* state of every InputStream object created so far:
                    \* none, open, started, stopped, aborted, closed
    audio_level,    \* WhisperRecorder.audio_level
    start_time,     \* WhisperRecorder.start_time, on the clock of toggles
    status_label,   \* text of WhisperGUI.status_label
    record_button,  \* image of WhisperGUI.record_button
    text_box,       \* content of WhisperGUI.text_box
    vis_timers,     \* pending root.after(50, update_visualizer) callbacks
    bars,           \* level last drawn on the visualizer bars
    boxes,          \* messagebox.showerror calls handed to root.after(0, ...)
    clipboard,      \* text on the Windows clipboard
    clip_open,      \* the clipboard is held open by this process
    threads,        \* the worker threads, by spawning toggle
    toggles,        \* toggle_recording calls handled so far
    fg,             \* position of the foreground inside a toggle handler
    nblocks         \* audio callbacks delivered so far

vars == <<is_recording, BUFFER, stream, streams, audio_level, start_time,
          status_label,
          record_button, text_box, vis_timers, bars, boxes, clipboard,
          clip_open, threads, toggles, fg, nblocks>>

recorder == <<is_recording, BUFFER, stream, streams, audio_level, start_time>>
surface == <<status_label, record_button, text_box>>
meter == <<vis_timers, bars>>
clip == <<clipboard, clip_open>>

\* A worker that has not been spawned yet.  kind and pc are the thread's
\* target and position, audio and text its local variables audio_data and
\* text; the rest records what happened to it: res the outcome it met, got
\* the number of blocks in BUFFER when its stop_recording read it (-1 before),
\* ncalls and ncopy its calls of model.transcribe and copy_to_clipboard,
\* copied how the copy went, shown whether it wrote its text to the text box,
\* out the outcomes the toggle and its worker have put on the surface.
NoThread ==
    [kind |-> "none", pc |-> "none", audio |-> None, text |-> "",
     res |-> "none", got |-> -1, ncalls |-> 0, ncopy |-> 0, copied |-> "none",
     shown |-> FALSE, out |-> {}]

\* ------------------------------------------------------- pure functions
RECURSIVE Flatten_reversed(_)
\* Flatten joining the blocks last to first
Flatten_reversed(buf) ==
    IF buf = <<>> THEN <<>> ELSE Flatten_reversed(Tail(buf)) \o Head(buf)

RECURSIVE Flatten(_)
\* np.concatenate(self.BUFFER, axis=0).flatten()
Flatten(buf) ==
    IF buf = <<>> THEN <<>> ELSE Head(buf) \o Flatten(Tail(buf))

RECURSIVE SumSq(_)
SumSq(b) ==
    IF b = <<>> THEN 0 ELSE Head(b) * Head(b) + SumSq(Tail(b))

RECURSIVE ISqrtFrom(_, _)
ISqrtFrom(n, r) ==
    IF (r + 1) * (r + 1) > n THEN r ELSE ISqrtFrom(n, r + 1)

\* Rms without the square root
Rms_no_sqrt(b) ==
    SumSq(b) \div Len(b)

\* np.sqrt(np.mean(indata**2)), on integers (rounded down)
Rms(b) ==
    ISqrtFrom(SumSq(b) \div Len(b), 0)

\* ----------------------------------------------------------------- Init
Init ==
    /\ is_recording = FALSE
    /\ BUFFER = <<>>
    /\ stream = 0
    /\ streams = [s \in Workers |-> "none"]
    /\ audio_level = 0
    /\ start_time = 0
    /\ status_label = READY
    /\ record_button = "record"
    /\ text_box = ""
    /\ vis_timers = 0
    /\ bars = 0
    /\ boxes = 0
    /\ clipboard = ""
    /\ clip_open = FALSE
    /\ threads = [w \in Workers |-> NoThread]
    /\ toggles = 0
    /\ fg = "idle"
    /\ nblocks = 0

\* ------------------------------------------------------------ foreground
Min(a, b) == IF a < b THEN a ELSE b

\* WhisperGUI.update_visualizer: the timers left pending and the level drawn
\* when it runs with `pending` other timers pending.
update_visualizer(pending) ==
    IF ~is_recording
    THEN /\ vis_timers' = pending
         /\ bars' = bars
    ELSE /\ bars' = Min(1, audio_level * 5)
         /\ vis_timers' = pending + 1

\* what the toggle handler has shown by the time it starts its thread:
\* 'Recording...' (line 423) or 'Generating text...' (line 441)
Announced(kind) ==
    IF kind = "record" THEN {"started"} ELSE {"stopped-transcribing"}

\* threading.Thread(target=..., daemon=True).start() for toggle number w
Spawn(w, kind, pc) ==
    threads' = [threads EXCEPT ![w] = [NoThread EXCEPT !.kind = kind,
                                                       !.pc = pc,
                                                       !.out = Announced(kind)]]

\* WhisperGUI.start_recording, lines 422-424 (the widget updates)
gui_start_recording ==
    /\ record_button' = "mic"
    /\ status_label' = RECORDING
    /\ fg' = "start"
    /\ UNCHANGED <<text_box, vis_timers, bars, threads>>

\* WhisperGUI.stop_recording
gui_stop_recording ==
    /\ record_button' = "record"
    /\ status_label' = GENERATING
    /\ Spawn(toggles + 1, "stop", "s_check")
    /\ UNCHANGED <<text_box, vis_timers, bars, fg>>

\* toggle_recording with its test inverted
toggle_recording_inverted ==
    /\ fg = "idle"
    /\ toggles < MaxToggles
    /\ toggles' = toggles + 1
    /\ IF is_recording THEN gui_start_recording ELSE gui_stop_recording
    /\ UNCHANGED <<recorder, boxes, clip, nblocks>>

\* WhisperGUI.toggle_recording (button, <space>, <Return>)
toggle_recording ==
    /\ fg = "idle"
    /\ toggles < MaxToggles
    /\ toggles' = toggles + 1
    /\ IF ~is_recording THEN gui_start_recording ELSE gui_stop_recording
    /\ UNCHANGED <<recorder, boxes, clip, nblocks>>

\* gui_start_recording_spawn calling self.recorder.start_recording() itself
\* instead of starting the _record thread
gui_start_recording_inline ==
    /\ fg = "start"
    /\ update_visualizer(vis_timers)
    /\ streams' = [streams EXCEPT ![toggles] = "started"]
    /\ stream' = toggles
    /\ is_recording' = TRUE
    /\ start_time' = toggles
    /\ threads' = [threads EXCEPT ![toggles] =
                      [NoThread EXCEPT !.kind = "record", !.pc = "done",
                                       !.res = "started",
                                       !.out = {"started"}]]
    /\ fg' = "idle"
    /\ UNCHANGED <<BUFFER, audio_level, surface, boxes, clip, toggles,
                   nblocks>>

\* WhisperGUI.start_recording, lines 425-426: the first update_visualizer
\* call and the start of the _record thread
gui_start_recording_spawn ==
    /\ fg = "start"
    /\ update_visualizer(vis_timers)
    /\ Spawn(toggles, "record", "r_open")
    /\ fg' = "idle"
    /\ UNCHANGED <<recorder, surface, boxes, clip, toggles, nblocks>>

\* update_visualizer run by a root.after(50, ...) timer
VisualizerTimer ==
    /\ fg = "idle"
    /\ vis_timers > 0
    /\ update_visualizer(vis_timers - 1)
    /\ UNCHANGED <<recorder, surface, boxes, clip, threads, toggles, fg,
                   nblocks>>

\* -------------------------------------------------------- audio callback
\* how one call of the callback ends: both statements run, indata.copy() or
\* the append raises, or the level computation raises; the except branch
\* logs and returns
CallbackOutcomes == {"ok", "copy_fails", "level_fails"}

\* WhisperRecorder.callback, called by PortAudio for a started stream with
\* one of `blocks`, at most `max` times, ending in one of `outcomes`
callback_from(blocks, max, outcomes) ==
    /\ nblocks < max
    /\ \E s \in Workers : streams[s] = "started"
    /\ \E indata \in blocks, how \in outcomes :
          /\ BUFFER' = IF how = "copy_fails" THEN BUFFER
                                             ELSE Append(BUFFER, indata)
          /\ audio_level' = IF how = "ok" THEN Rms(indata) ELSE audio_level
    /\ nblocks' = nblocks + 1
    /\ UNCHANGED <<is_recording, stream, streams, start_time, surface,
                   meter, boxes, clip, threads, toggles, fg>>

\* the callback under Spec: every block is processed without a fault
\* (the faults are taken under CaptureSpec)
callback ==
    callback_from(Blocks, MaxBlocks, {"ok"})

\* --------------------------------------------------------- _record worker
At(w, pc) == threads[w].pc = pc

Goto(w, pc) == [threads EXCEPT ![w].pc = pc]

\* the except branch of WhisperGUI._record
record_except(w) ==
    /\ boxes' = boxes + 1
    /\ record_button' = "record"
    /\ text_box' = START_ERROR
    /\ threads' = [threads EXCEPT ![w].pc = "done", ![w].res = "failed",
                                  ![w].out = @ \cup {"failed"}]
    /\ UNCHANGED <<status_label>>

\* WhisperRecorder.start_recording, lines 147-156: both InputStream
\* constructors succeed and self.stream is assigned
RecordOpen(w) ==
    /\ At(w, "r_open")
    /\ streams' = [streams EXCEPT ![w] = "open"]
    /\ stream' = w
    /\ threads' = Goto(w, "r_start")
    /\ UNCHANGED <<is_recording, BUFFER, audio_level, start_time, surface,
                   meter, boxes, clip, toggles, fg, nblocks>>

\* WhisperRecorder.start_recording: an InputStream constructor raises
RecordOpenFails(w) ==
    /\ At(w, "r_open")
    /\ record_except(w)
    /\ UNCHANGED <<recorder, meter, clip, toggles, fg, nblocks>>

\* self.stream.start() succeeds; Pa_StartStream on a stream that is already
\* running, or that was aborted and not stopped since, reports
\* paStreamIsNotStopped, which sounddevice ignores
RecordStart(w) ==
    /\ At(w, "r_start")
    /\ streams[stream] \in {"open", "stopped", "started", "aborted"}
    /\ streams' = [streams EXCEPT ![stream] =
                       IF @ = "aborted" THEN @ ELSE "started"]
    /\ threads' = Goto(w, "r_flag")
    /\ UNCHANGED <<is_recording, BUFFER, stream, audio_level, start_time,
                   surface, meter, boxes, clip, toggles, fg, nblocks>>

\* RecordStartFails with is_recording set before self.stream.start() is called
RecordStartFails_flag_first(w) ==
    /\ At(w, "r_start")
    /\ streams[stream] \in {"open", "stopped", "closed"}
    /\ record_except(w)
    /\ is_recording' = TRUE
    /\ UNCHANGED <<BUFFER, stream, streams, audio_level, start_time, meter,
                   clip, toggles, fg, nblocks>>

\* self.stream.start() raises: always on a closed stream, possibly on one
\* that is not running
RecordStartFails(w) ==
    /\ At(w, "r_start")
    /\ streams[stream] \in {"open", "stopped", "closed"}
    /\ record_except(w)
    /\ UNCHANGED <<recorder, meter, clip, toggles, fg, nblocks>>

\* self.is_recording = True; self.start_time = time.time()
RecordFlag(w) ==
    /\ At(w, "r_flag")
    /\ is_recording' = TRUE
    /\ start_time' = toggles
    /\ threads' = [threads EXCEPT ![w].pc = "done", ![w].res = "started"]
    /\ UNCHANGED <<BUFFER, stream, streams, audio_level, surface, meter,
                   boxes, clip, toggles, fg, nblocks>>

\* ----------------------------------------------- _stop_and_transcribe worker
\* StopCheck without the `if not self.is_recording: return None` lines
StopCheck_no_test(w) ==
    /\ At(w, "s_check")
    /\ threads' = Goto(w, "s_stop")
    /\ UNCHANGED <<recorder, surface, meter, boxes, clip, toggles, fg,
                   nblocks>>

\* WhisperRecorder.stop_recording, line 167: if not self.is_recording
StopCheck(w) ==
    /\ At(w, "s_check")
    /\ threads' = IF ~is_recording
                  THEN [threads EXCEPT ![w].pc = "s_none",
                                       ![w].res = "inactive"]
                  ELSE Goto(w, "s_stop")
    /\ UNCHANGED <<recorder, surface, meter, boxes, clip, toggles, fg,
                   nblocks>>

\* the except branch of WhisperRecorder.stop_recording: return None
stop_except(w) ==
    threads' = [threads EXCEPT ![w].pc = "s_none", ![w].res = "stop_failed"]

\* self.stream.stop() returns; stopping a stream that is not running is
\* ignored by sounddevice.  On a stream that another worker has closed the
\* call hands PortAudio a freed pointer: it returns or raises.
StopStream(w) ==
    /\ At(w, "s_stop")
    /\ streams' = [streams EXCEPT ![stream] =
                       IF @ = "started" THEN "stopped" ELSE @]
    /\ threads' = Goto(w, "s_close")
    /\ UNCHANGED <<is_recording, BUFFER, stream, audio_level, start_time,
                   surface, meter, boxes, clip, toggles, fg, nblocks>>

\* self.stream.stop() raises
StopStreamFails(w) ==
    /\ At(w, "s_stop")
    /\ stop_except(w)
    /\ UNCHANGED <<recorder, surface, meter, boxes, clip, toggles, fg,
                   nblocks>>

\* self.stream.close() returns (on a closed stream: see StopStream)
StopClose(w) ==
    /\ At(w, "s_close")
    /\ streams' = [streams EXCEPT ![stream] = "closed"]
    /\ threads' = Goto(w, "s_flag")
    /\ UNCHANGED <<is_recording, BUFFER, stream, audio_level, start_time,
                   surface, meter, boxes, clip, toggles, fg, nblocks>>

\* self.stream.close() raises
StopCloseFails(w) ==
    /\ At(w, "s_close")
    /\ stop_except(w)
    /\ UNCHANGED <<recorder, surface, meter, boxes, clip, toggles, fg,
                   nblocks>>

\* self.is_recording = False
StopFlag(w) ==
    /\ At(w, "s_flag")
    /\ is_recording' = FALSE
    /\ threads' = Goto(w, "s_buf")
    /\ UNCHANGED <<BUFFER, stream, streams, audio_level, start_time,
                   surface, meter, boxes, clip, toggles, fg, nblocks>>

\* Waveform without the `if not self.BUFFER` test
Waveform_no_empty_test(buf) ==
    Flatten(buf)

\* what stop_recording makes of the buffer it reads at lines 178-183:
\* None for an empty buffer, else the concatenated samples
Waveform(buf) ==
    IF buf = <<>> THEN None ELSE Flatten(buf)

\* WhisperRecorder.stop_recording, lines 178-183: the buffer is read
StopBuffer(w) ==
    /\ At(w, "s_buf")
    /\ threads' = IF Waveform(BUFFER) = None
                  THEN [threads EXCEPT ![w].pc = "s_none", ![w].res = "empty",
                                       ![w].got = Len(BUFFER)]
                  ELSE [threads EXCEPT ![w].pc = "s_clear",
                                       ![w].got = Len(BUFFER),
                                       ![w].audio = Waveform(BUFFER)]
    /\ UNCHANGED <<recorder, surface, meter, boxes, clip, toggles, fg,
                   nblocks>>

\* self.BUFFER = [] and the return of the waveform
StopClear(w) ==
    /\ At(w, "s_clear")
    /\ BUFFER' = <<>>
    /\ threads' = Goto(w, "s_transcribe")
    /\ UNCHANGED <<is_recording, stream, streams, audio_level, start_time,
                   surface, meter, boxes, clip, toggles, fg, nblocks>>

\* WhisperRecorder.transcribe: what it returns when model.transcribe
\* returns result["text"] = t (raised = FALSE) or raises (raised = TRUE)
transcribe(t, raised) ==
    IF raised THEN "" ELSE t

\* _stop_and_transcribe, lines 449-451: WhisperRecorder.transcribe on the
\* waveform (model.transcribe returns or raises), then the text replaces the
\* content of the text box
Transcribe(w) ==
    /\ At(w, "s_transcribe")
    /\ \E t \in Texts, raised \in BOOLEAN :
          /\ threads' = [threads EXCEPT
                            ![w].pc = "s_copy",
                            ![w].text = transcribe(t, raised),
                            ![w].ncalls = @ + 1,
                            ![w].shown = TRUE,
                            ![w].out = @ \cup {"transcribed"},
                            ![w].res = IF raised THEN "engine_failed"
                                                 ELSE "transcribed"]
          /\ text_box' = transcribe(t, raised)
    /\ UNCHANGED <<recorder, status_label, record_button, meter, boxes, clip,
                   toggles, fg, nblocks>>

ClipboardOutcomes == {"ok", "open_fails", "empty_fails", "set_fails",
                      "close_fails"}

\* copy_to_clipboard(text): the four win32clipboard calls, the first failing
\* one (if any) ending the function in its except branch
copy_to_clipboard(text, how) ==
    /\ clipboard' = CASE how \in {"ok", "close_fails"} -> text
                      [] how = "set_fails" -> ""
                      [] OTHER -> clipboard
    /\ clip_open' = CASE how = "ok" -> FALSE
                      [] how = "open_fails" -> clip_open
                      [] OTHER -> TRUE

\* CopyText with a copy_to_clipboard that has no try: a failing clipboard
\* call ends the worker in the except branch of lines 460-466
CopyText_unguarded(w) ==
    /\ At(w, "s_copy")
    /\ \E how \in ClipboardOutcomes :
          /\ copy_to_clipboard(threads[w].text, how)
          /\ threads' = [threads EXCEPT
                            ![w].pc = "done",
                            ![w].ncopy = @ + 1,
                            ![w].copied = IF how = "ok" THEN "ok" ELSE "failed",
                            ![w].audio = None]
          /\ text_box' = IF how = "ok" THEN text_box
                                       ELSE "Error during transcription"
          /\ boxes' = IF how = "ok" THEN boxes ELSE boxes + 1
    /\ status_label' = READY
    /\ UNCHANGED <<recorder, record_button, meter, toggles, fg, nblocks>>

\* CopyText in a _stop_and_transcribe whose `else:` of line 455 is missing,
\* so that lines 456-458 run after the copy too
CopyText_falls_through(w) ==
    /\ At(w, "s_copy")
    /\ \E how \in ClipboardOutcomes :
          /\ copy_to_clipboard(threads[w].text, how)
          /\ threads' = [threads EXCEPT
                            ![w].pc = "s_none",
                            ![w].ncopy = @ + 1,
                            ![w].copied = IF how = "ok" THEN "ok" ELSE "failed",
                            ![w].audio = None]
    /\ status_label' = READY
    /\ UNCHANGED <<recorder, record_button, text_box, meter, boxes, toggles,
                   fg, nblocks>>

\* _stop_and_transcribe, lines 452-453
CopyText(w) ==
    /\ At(w, "s_copy")
    /\ \E how \in ClipboardOutcomes :
          /\ copy_to_clipboard(threads[w].text, how)
          /\ threads' = [threads EXCEPT
                            ![w].pc = "done",
                            ![w].ncopy = @ + 1,
                            ![w].copied = IF how = "ok" THEN "ok" ELSE "failed",
                            ![w].audio = None]
    /\ status_label' = READY
    /\ UNCHANGED <<recorder, record_button, text_box, meter, boxes, toggles,
                   fg, nblocks>>

\* _stop_and_transcribe, lines 456-458: stop_recording returned None
NoAudio(w) ==
    /\ At(w, "s_none")
    /\ text_box' = NO_AUDIO
    /\ status_label' = READY
    /\ threads' = [threads EXCEPT ![w].pc = "done",
                                  ![w].out = @ \cup {"stopped-empty"}]
    /\ UNCHANGED <<recorder, record_button, meter, boxes, clip, toggles, fg,
                   nblocks>>

\* ------------------------------------------------------------------ Next
record_worker(w) ==
    \/ RecordOpen(w)
    \/ RecordOpenFails(w)
    \/ RecordStart(w)
    \/ RecordStartFails(w)
    \/ RecordFlag(w)

stop_and_transcribe(w) ==
    \/ StopCheck(w)
    \/ StopStream(w)
    \/ StopStreamFails(w)
    \/ StopClose(w)
    \/ StopCloseFails(w)
    \/ StopFlag(w)
    \/ StopBuffer(w)
    \/ StopClear(w)
    \/ Transcribe(w)
    \/ CopyText(w)
    \/ NoAudio(w)

Foreground ==
    \/ gui_start_recording_spawn
    \/ VisualizerTimer

Next ==
    \/ toggle_recording
    \/ Foreground
    \/ callback
    \/ \E w \in Workers : record_worker(w)
    \/ \E w \in Workers : stop_and_transcribe(w)

Spec == Init /\ [][Next]_vars

\* The threads are scheduled by the operating system and the Tk main loop
\* runs its pending handlers; the user and the audio device owe nothing.
Fairness ==
    /\ WF_vars(Foreground)
    /\ \A w \in Workers : WF_vars(record_worker(w))
    /\ \A w \in Workers : WF_vars(stop_and_transcribe(w))

FairSpec == Spec /\ Fairness

\* ---------------------------------------------------------------- claims
Live(w) == threads[w].pc \notin {"none", "done"}

\* the _stop_and_transcribe workers in flight
StopWorkers == {w \in Workers : threads[w].kind = "stop" /\ Live(w)}

\* the _record workers in flight
RecordWorkers == {w \in Workers : threads[w].kind = "record" /\ Live(w)}

\* the input streams a callback can come from
Started == {s \in Workers : streams[s] = "started"}

\* the controller is Idle: not recording, and saying so
Idle == ~is_recording /\ status_label = READY

\* no handler and no worker is running
Quiescent == fg = "idle" /\ StopWorkers = {} /\ RecordWorkers = {}

\* ----------------------------------------------------------- whisper_cli
\* whisper_cli.py: the same two classes without the visualizer, without the
\* try in callback and in stop_recording, and without the error dialog.
CLI_ERROR == "Error: "

\* WhisperRecorder.callback of whisper_cli.py: an exception of either
\* statement leaves the callback, and the PortAudio wrapper of sounddevice
\* answers an exception of the callback with paAbort, which ends the stream
cli_callback ==
    /\ nblocks < MaxCapture
    /\ \E s \in Workers :
          /\ streams[s] = "started"
          /\ \E indata \in Blocks, how \in CallbackOutcomes :
                /\ BUFFER' = IF how = "copy_fails" THEN BUFFER
                                                   ELSE Append(BUFFER, indata)
                /\ audio_level' = IF how = "ok" THEN Rms(indata)
                                                ELSE audio_level
                /\ streams' = IF how = "ok" THEN streams
                               ELSE [streams EXCEPT ![s] = "aborted"]
    /\ nblocks' = nblocks + 1
    /\ UNCHANGED <<is_recording, stream, start_time, surface, meter, boxes,
                   clip, threads, toggles, fg>>

\* WhisperGUI.toggle_recording of whisper_cli.py, by a user who toggles only
\* when no worker is running; start_recording there has no update_visualizer
\* call, so the handler is one step
cli_toggle_recording ==
    /\ Quiescent
    /\ toggles < MaxToggles
    /\ toggles' = toggles + 1
    /\ IF ~is_recording
       THEN /\ record_button' = "mic"
            /\ status_label' = RECORDING
            /\ Spawn(toggles + 1, "record", "r_open")
       ELSE /\ record_button' = "record"
            /\ status_label' = GENERATING
            /\ Spawn(toggles + 1, "stop", "s_check")
    /\ UNCHANGED <<recorder, text_box, meter, boxes, clip, fg, nblocks>>

\* the except branch of WhisperGUI._record of whisper_cli.py, entered when
\* the InputStream constructor (at r_open) or self.stream.start() raises
cli_record_fails(w) ==
    /\ \/ At(w, "r_open")
       \/ At(w, "r_start") /\ streams[stream] \in {"open", "stopped", "closed"}
    /\ record_button' = "record"
    /\ text_box' = CLI_ERROR
    /\ threads' = [threads EXCEPT ![w].pc = "done", ![w].res = "failed",
                                  ![w].out = @ \cup {"failed"}]
    /\ UNCHANGED <<recorder, status_label, meter, boxes, clip, toggles, fg,
                   nblocks>>

\* self.stream.stop() or self.stream.close() raises in stop_recording of
\* whisper_cli.py: the except branch of _stop_and_transcribe shows the error
cli_stop_fails(w) ==
    /\ At(w, "s_stop") \/ At(w, "s_close")
    /\ text_box' = CLI_ERROR
    /\ status_label' = READY
    /\ threads' = [threads EXCEPT ![w].pc = "done", ![w].res = "stop_failed",
                                  ![w].out = @ \cup {"transcription-failed"}]
    /\ UNCHANGED <<recorder, record_button, meter, boxes, clip, toggles, fg,
                   nblocks>>

cli_record_worker(w) ==
    \/ RecordOpen(w)
    \/ RecordStart(w)
    \/ RecordFlag(w)
    \/ cli_record_fails(w)

cli_stop_and_transcribe(w) ==
    \/ StopCheck(w)
    \/ StopStream(w)
    \/ StopClose(w)
    \/ StopFlag(w)
    \/ StopBuffer(w)
    \/ StopClear(w)
    \/ Transcribe(w)
    \/ CopyText(w)
    \/ NoAudio(w)
    \/ cli_stop_fails(w)

CliNext ==
    \/ cli_toggle_recording
    \/ cli_callback
    \/ \E w \in Workers : cli_record_worker(w)
    \/ \E w \in Workers : cli_stop_and_transcribe(w)

CliSpec == Init /\ [][CliNext]_vars

\* ------------------------------------------------------------ the level
\* The callback as a function of its block: from the state in which the
\* first recording has just started, up to MaxLevelCalls blocks arrive, of
\* 1..BlockLen samples, either all of one value in -MaxSample..MaxSample or
\* mixed from Samples, and both statements of the callback run.
LevelBlocks ==
    UNION {{[i \in 1..n |-> a] : a \in (-MaxSample)..MaxSample}
           \cup [1..n -> Samples] : n \in 1..BlockLen}

\* the state after toggle_recording, gui_start_recording_spawn, RecordOpen,
\* RecordStart and RecordFlag
LevelInit ==
    /\ is_recording = TRUE
    /\ BUFFER = <<>>
    /\ stream = 1
    /\ streams = [s \in Workers |-> IF s = 1 THEN "started" ELSE "none"]
    /\ audio_level = 0
    /\ start_time = 1
    /\ status_label = RECORDING
    /\ record_button = "mic"
    /\ text_box = ""
    /\ vis_timers = 0
    /\ bars = 0
    /\ boxes = 0
    /\ clipboard = ""
    /\ clip_open = FALSE
    /\ threads = [w \in Workers |->
                    IF w = 1 THEN [NoThread EXCEPT !.kind = "record",
                                                   !.pc = "done",
                                                   !.res = "started",
                                                   !.out = {"started"}]
                             ELSE NoThread]
    /\ toggles = 1
    /\ fg = "idle"
    /\ nblocks = 0

level_callback ==
    callback_from(LevelBlocks, MaxLevelCalls, {"ok"})

LevelSpec == LevelInit /\ [][level_callback]_vars

\* -------------------------------------------------------- sequential use
\* The program driven by a user who toggles only when no handler and no
\* worker is running, with up to MaxCapture callbacks, any of which may meet
\* a fault.  No update_visualizer timer is ever armed in such a run (line 425
\* runs before the _record thread exists), so VisualizerTimer has no step.
capture_toggle ==
    /\ Quiescent
    /\ toggle_recording

capture_callback ==
    callback_from(Blocks, MaxCapture, CallbackOutcomes)

CaptureNext ==
    \/ capture_toggle
    \/ gui_start_recording_spawn
    \/ capture_callback
    \/ \E w \in Workers : record_worker(w)
    \/ \E w \in Workers : stop_and_transcribe(w)

CaptureSpec == Init /\ [][CaptureNext]_vars

\* C1: a toggle handled while a _stop_and_transcribe worker is in flight is
\* ignored: the status stays 'Generating text...', no thread is spawned, and
\* WhisperGUI.start_recording is not entered.
C1_ToggleIgnoredWhileTranscribing ==
    [][(toggles' # toggles /\ StopWorkers # {})
          => /\ status_label' = GENERATING
             /\ threads' = threads
             /\ fg' = "idle"]_vars

\* C2: at most one _stop_and_transcribe worker is in flight at any time.
C2_OneStopWorker ==
    Cardinality(StopWorkers) <= 1

\* C3: at most one input stream is started at any time, and no stream that
\* is still open has been dropped by self.stream being overwritten.
C3_NoOverlappingStreams ==
    /\ Cardinality(Started) <= 1
    /\ \A s \in Workers :
          streams[s] \in {"open", "started", "stopped"} => stream = s

\* C4: once the engine has returned a text for a worker's waveform, the
\* controller eventually is Idle with that worker finished, its text shown
\* and passed to copy_to_clipboard exactly once (workers scheduled fairly).
C4_TranscribedReachesIdle ==
    \A w \in Workers :
        (threads[w].res = "transcribed")
            ~> (/\ Idle
                /\ threads[w].pc = "done"
                /\ threads[w].shown
                /\ threads[w].ncopy = 1)

\* C5: a worker whose model.transcribe call raised never calls
\* copy_to_clipboard.
C5_NoCopyAfterEngineFailure ==
    \A w \in Workers :
        threads[w].res = "engine_failed" => threads[w].ncopy = 0

\* the step in which worker w leaves _record through its except branch
StartFails(w) ==
    threads[w].res # "failed" /\ threads'[w].res = "failed"

\* C6: a _record worker whose start_recording raises leaves is_recording, the
\* buffer and the set of running streams as they were and surfaces the error
\* (text box and error dialog); the recorder is active, or holds audio, only
\* if some worker's start_recording succeeded.
C6_FailedStartStaysIdle ==
    /\ [][\A w \in Workers :
              StartFails(w) => /\ is_recording' = is_recording
                               /\ BUFFER' = BUFFER
                               /\ Started' = Started
                               /\ text_box' = START_ERROR
                               /\ boxes' = boxes + 1]_vars
    /\ [](is_recording \/ BUFFER # <<>> \/ Started # {}
              => \E w \in Workers : /\ threads[w].kind = "record"
                                    /\ threads[w].pc \in {"r_flag", "done"}
                                    /\ threads[w].res # "failed")

\* a start fails, nothing else has started: not recording, error shown
C6_Witness ==
    \E w \in Workers :
        /\ threads[w].res = "failed"
        /\ ~is_recording
        /\ BUFFER = <<>>
        /\ text_box = START_ERROR
        /\ boxes > 0

\* the step in which worker w ends
Finishes(w) ==
    threads[w].pc # "done" /\ threads'[w].pc = "done"

\* only one start has ever been toggled
RecordOnce ==
    Cardinality({v \in Workers : threads[v].kind = "record"}) = 1

EntersTranscribing ==
    status_label # GENERATING /\ status_label' = GENERATING

Failed(w) ==
    \/ threads[w].res \in {"failed", "stop_failed", "engine_failed"}
    \/ threads[w].copied = "failed"

\* C9: when the worker of the latest toggle has ended after an error and
\* nothing else is running, the controller is Idle.
C9_ErrorsReturnToIdle ==
    \A w \in Workers :
        (toggles = w /\ threads[w].pc = "done" /\ Failed(w) /\ Quiescent)
            => Idle

\* C10: while the controller is in Recording, an update_visualizer timer is
\* pending.
C10_MeterPollsWhileRecording ==
    (is_recording /\ status_label = RECORDING /\ fg = "idle")
        => vis_timers > 0

\* C11: a call of stop_recording that finds is_recording False returns no
\* waveform (its thread takes the None branch, reads no buffer and calls no
\* engine) and leaves BUFFER, is_recording, stream, the streams, start_time
\* and audio_level as they were, for every such call of every worker.
C11_InactiveStopChangesNothing ==
    /\ [][\A w \in Workers :
             (At(w, "s_check") /\ ~is_recording /\ threads'[w] # threads[w])
                => /\ UNCHANGED <<BUFFER, is_recording, stream, streams,
                                  start_time, audio_level>>
                   /\ threads'[w].pc = "s_none"
                   /\ threads'[w].audio = None]_vars
    /\ [](\A w \in Workers :
             threads[w].res = "inactive"
                => /\ threads[w].audio = None
                   /\ threads[w].got = -1
                   /\ threads[w].ncalls = 0)

C11_Witness ==
    \E w \in Workers :
        /\ threads[w].res = "inactive"
        /\ BUFFER # <<>>
        /\ audio_level # 0
        /\ start_time # 0

\* sample j of block i of buf sits at place (i-1)*BlockLen + j of wave, and
\* wave has nothing else
IsConcatenation(wave, buf) ==
    /\ Len(wave) = Len(buf) * BlockLen
    /\ \A i \in 1..Len(buf) : \A j \in 1..BlockLen :
           wave[(i - 1) * BlockLen + j] = buf[i][j]

\* C12: the buffer grows only by one block of size BlockLen put after the
\* blocks it holds, which stay as they are, and the waveform stop_recording
\* builds from a buffer of N blocks is those N blocks in arrival order,
\* N * BlockLen samples long.
C12_WaveformIsConcatenation ==
    [][/\ (BUFFER' # BUFFER /\ BUFFER' # <<>>)
            => /\ Len(BUFFER') = Len(BUFFER) + 1
               /\ SubSeq(BUFFER', 1, Len(BUFFER)) = BUFFER
               /\ Len(BUFFER'[Len(BUFFER')]) = BlockLen
       /\ \A w \in Workers :
            (At(w, "s_buf") /\ threads'[w] # threads[w] /\ BUFFER # <<>>)
               => IsConcatenation(threads'[w].audio, BUFFER)]_vars

\* a waveform of three blocks that are not all alike
C12_Witness ==
    \E w \in Workers :
        /\ threads[w].got = 3
        /\ threads[w].audio # None
        /\ \E i, j \in 1..Len(threads[w].audio) :
               threads[w].audio[i] # threads[w].audio[j]

RECURSIVE Taken(_)
\* the blocks held by the waveforms that workers 1..n have been given
Taken(n) ==
    IF n = 0 THEN 0
    ELSE (IF threads[n].got > 0 THEN threads[n].got ELSE 0) + Taken(n - 1)

\* C13: no captured block is in two waveforms (the waveforms together hold at
\* most as many blocks as the callback has delivered), and a worker that was
\* given a waveform has called the engine exactly once when it finishes.
C13_EachBlockInOneWaveform ==
    /\ Taken(MaxToggles) <= nblocks
    /\ \A w \in Workers :
          (threads[w].got > 0 /\ threads[w].pc = "done")
             => threads[w].ncalls = 1

\* C14: the loudness is 0 whenever the recorder is not active; stated for
\* the states in which no handler and no worker is running, where a level
\* other than 0 can only be one carried over from a finished session.
C14_LevelZeroWhenInactive ==
    (Quiescent /\ ~is_recording) => audio_level = 0

\* C15: no call of the callback lets an exception out (which the stream
\* would answer by aborting) and none ends the recording: the streams that
\* were running before the call are running after it and is_recording is as
\* before, so that later blocks arrive and are appended.
C15_CallbackFaultContained ==
    /\ [](\A s \in Workers : streams[s] # "aborted")
    /\ [][nblocks' # nblocks
            => Started' = Started /\ is_recording' = is_recording]_vars

\* C16: a copy_to_clipboard call that fails changes nothing of the session
\* (is_recording, BUFFER, stream, the streams) and nothing of the transcript
\* shown, opens no error dialog, and its worker still ends by setting the
\* status to 'Ready to record'.
C16_ClipboardFailureNotFatal ==
    [][\A w \in Workers :
          (At(w, "s_copy") /\ threads'[w].copied = "failed")
             => /\ UNCHANGED <<is_recording, BUFFER, stream, streams>>
                /\ text_box' = text_box
                /\ boxes' = boxes
                /\ status_label' = READY
                /\ threads'[w].pc = "done"]_vars

\* after a failed copy the transcript is shown and the controller is Idle
C16_Witness ==
    \E w \in Workers :
        /\ threads[w].copied = "failed"
        /\ threads[w].pc = "done"
        /\ threads[w].text = "hello"
        /\ text_box = "hello"
        /\ clipboard # "hello"
        /\ Idle

Abs(x) == IF x < 0 THEN -x ELSE x

\* C17: after the callback has taken a block whose samples all have
\* amplitude A (A = 0: an all-zero block) the loudness is A, and the loudness
\* is never negative.
C17_LevelOfConstantBlock ==
    /\ [](audio_level >= 0)
    /\ [][Len(BUFFER') = Len(BUFFER) + 1
            => LET indata == BUFFER'[Len(BUFFER')]
               IN  \A A \in 0..MaxSample :
                      (\A i \in 1..Len(indata) : Abs(indata[i]) = A)
                         => audio_level' = A]_vars

\* a zero block was followed by a block of -MaxSample throughout
C17_Witness ==
    /\ Len(BUFFER) = 2
    /\ \A i \in 1..Len(BUFFER[1]) : BUFFER[1][i] = 0
    /\ Len(BUFFER[2]) = BlockLen
    /\ \A i \in 1..BlockLen : BUFFER[2][i] = -MaxSample
    /\ audio_level = MaxSample

\* the six outcomes one at a time, a stop that transcribes being two
\* transitions (stopped-transcribing, then transcribed or
\* transcription-failed)
SingleOutcomes ==
    {{"started"}, {"failed"}, {"stopped-empty"}, {"stopped-transcribing"},
     {"stopped-transcribing", "transcribed"},
     {"stopped-transcribing", "transcription-failed"}}

WorkerStep ==
    \E w \in Workers :
        threads[w].pc # "none" /\ threads'[w].pc # threads[w].pc

\* C19: no step of a worker thread changes record_button, status_label,
\* text_box or is_recording; these change only in steps of the foreground.
C19_WorkersLeaveSurfaceToForeground ==
    [][WorkerStep => UNCHANGED <<record_button, status_label, text_box,
                                 is_recording>>]_vars

\* C20: while the status says 'Generating text...', that is from the moment
\* WhisperGUI.stop_recording has run, no update_visualizer timer is pending
\* (so none can redraw), and there is never more than one timer pending.
C20_MeterStopsOnLeavingRecording ==
    /\ vis_timers <= 1
    /\ status_label = GENERATING => vis_timers = 0

\* C21: the buffer grows only while is_recording is True, and growing leaves
\* the blocks it already holds as they are.
C21_AppendOnlyWhileRecording ==
    [][Len(BUFFER') > Len(BUFFER)
          => /\ is_recording
             /\ SubSeq(BUFFER', 1, Len(BUFFER)) = BUFFER]_vars

\* a step of the foreground: a toggle handler or an update_visualizer timer
ForegroundStep ==
    toggles' # toggles \/ fg' # fg \/ vis_timers' # vis_timers \/ bars' # bars

\* what start_recording, stop_recording and transcribe do shows in this step
RecorderCallStep ==
    \/ stream' # stream
    \/ streams' # streams
    \/ is_recording' # is_recording
    \/ start_time' # start_time
    \/ Len(BUFFER') < Len(BUFFER)
    \/ \E w \in Workers : threads'[w].ncalls # threads[w].ncalls
    \/ \E w \in Workers : threads'[w].got # threads[w].got

\* C22: start_recording, stop_recording and transcribe run only in steps of
\* worker threads: a step of the foreground shows none of their effects and
\* moves no thread that exists, and every step that shows one of their
\* effects is a worker's.
C22_ForegroundNeverBlocks ==
    [][/\ ForegroundStep
            => /\ ~RecorderCallStep
               /\ \A w \in Workers :
                     threads[w].kind # "none" => threads'[w] = threads[w]
       /\ RecorderCallStep => WorkerStep]_vars

\* a start and a stop with transcription have both been carried out
C22_Witness ==
    /\ fg = "idle"
    /\ \E w \in Workers : threads[w].res = "started" /\ threads[w].pc = "done"
    /\ \E w \in Workers :
          /\ threads[w].ncalls = 1
          /\ threads[w].pc = "done"
          /\ threads[w].got > 0

\* C23: whenever no handler and no worker is running, the status is
\* 'Recording...' exactly when is_recording is True and 'Ready to record'
\* exactly when it is False.
C23_StatusAgreesWithRecorder ==
    Quiescent => /\ (status_label = RECORDING) <=> is_recording
                 /\ (status_label = READY) <=> ~is_recording

\* the text box shows a transcript: some worker has written one and no later
\* message has replaced it
ShowsTranscript ==
    /\ \E w \in Workers : threads[w].shown
    /\ text_box \notin {NO_AUDIO, START_ERROR}

\* C24: once no handler and no worker is running, a transcript shown in the
\* text box is the text on the clipboard, provided every copy went through.
C24_TextBoxMatchesClipboard ==
    (/\ Quiescent
     /\ ShowsTranscript
     /\ \A w \in Workers : threads[w].copied # "failed")
        => text_box = clipboard

\* C25: what the claim draws from is_recording implying a running stream:
\* whenever stop_recording calls self.stream.stop() or self.stream.close(),
\* self.stream is a stream that exists and has not been closed.
C25_StopNeverOnClosedStream ==
    [][\A w \in Workers :
          ((At(w, "s_stop") \/ At(w, "s_close"))
              /\ threads'[w].pc # threads[w].pc)
             => /\ stream # 0
                /\ streams[stream] \notin {"none", "closed"}]_vars

\* C26: copy_to_clipboard leaves the clipboard open only if CloseClipboard
\* itself was called and failed, that is, only after SetClipboardText has put
\* the text on the clipboard; a failing EmptyClipboard or SetClipboardText
\* is followed by CloseClipboard.
C26_ClipboardClosedOnFailure ==
    [][\A w \in Workers :
          (At(w, "s_copy") /\ threads'[w].pc # threads[w].pc
              /\ ~clip_open /\ clip_open')
             => clipboard' = threads[w].text]_vars

====
